---- MODULE Spec2Model ----
(***************************************************************************)
(* The TFTP read client of tftp-rs: one download session driven by         *)
(* readiness events, in its two variants                                    *)
(*   "mio"   - src/src/tftp/client.rs      (Client::get / handle_event)     *)
(*   "rotor" - src/src/tftp/client_new.rs  (Machine::ready for Client)      *)
(* The socket, the poll registration and the writer are the environment:    *)
(* each call on them gets its outcome from a small set.                     *)
(***************************************************************************)
EXTENDS Integers, Sequences, FiniteSets, TLC

VARIABLES
    variant,          \* which client: "mio" (client.rs) or "rotor" (client_new.rs)
    path, mode,       \* the arguments of get
    state,            \* tag of ClientStates / Client, or the outcome of the handler
    current_id,       \* ReceivingData(current_id)
    data_packet,      \* SendAck(data_packet)
    interest,         \* the interest the socket is registered with
    remote_addr,      \* InternalClient.remote_addr
    buffer_data,      \* InternalClient.buffer_data is Some (client.rs only)
    error,            \* the Err value of handle_event / Context.error
    run_result,       \* what the runner hands to its caller
    sent,             \* datagrams the socket accepted, in order
    sink,             \* payloads the writer accepted, in order
    first_reply,      \* history: address the first received datagram came from
    last_from,        \* history: address the latest received datagram came from
    bulk,             \* history: blocks transferred by BulkTransfer
    last              \* history: what the last dispatched event did

vars == << variant, path, mode, state, current_id, data_packet,
           interest, remote_addr, buffer_data, error, run_result, sent, sink,
           first_reply, last_from, bulk, last >>

----------------------------------------------------------------------------
(* Program constants *)

MAX_DATA_SIZE == 512

\* block ids are u16
U16 == 65536

\* "127.0.0.1:69"
WellKnownAddr == "server:69"

(* Bounds of the model *)

\* acks the socket may accept after the read request (and after BulkTransfer)
MaxBlocks == 3

\* how far above the expected id an arriving block id may lie
IdSpread == 2

\* BulkTransfer moves the session next to the end of the u16 range
BulkBlocks == U16 - 3

Variants == {"mio", "rotor"}
\* the addresses datagrams arrive from
Addrs == {"server:2001", "other:3001"}
\* the calls of get
Requests == {<<"readme.txt", "octet">>, <<"boot.img", "netascii">>}
PayloadLens == {0, 499, MAX_DATA_SIZE}

\* RawPacket::opcode(): Some(Opcode) or None (unknown opcode, fewer than 2 bytes)
Opcodes == {"RRQ", "WRQ", "DATA", "ACK", "ERROR", "None"}

\* results of UdpSocket::send_to: Ok(Some(n)), Ok(None), Err(e)
SendResults == {"sent", "wouldblock", "err"}
IoResults == {"ok", "err"}

NoPacket == [block_id |-> 0, len |-> 0]
NoDatagram == [opcode |-> "None", decodes |-> FALSE, block_id |-> 0, len |-> 0, from |-> "-"]
NoPre == [state |-> "-", current_id |-> 0, interest |-> "-", remote_addr |-> "-",
          nsent |-> 0, nsink |-> 0]
NoLast == [arm |-> "-", event |-> "-", rx |-> "-", dgram |-> NoDatagram,
           pkt |-> NoPacket, send |-> "-", write |-> "-", pre |-> NoPre]

\* a datagram as the client sees it: what opcode() and decode() return for it
Datagrams(e) ==
    { [opcode |-> "DATA", decodes |-> TRUE, block_id |-> (e + U16 + d) % U16,
       len |-> n, from |-> a] : d \in -1..IdSpread, n \in PayloadLens, a \in Addrs }
    \cup
    { [opcode |-> o, decodes |-> FALSE, block_id |-> 0, len |-> 0, from |-> a] :
       o \in Opcodes, a \in Addrs }

RRQ(p, m, to) == [op |-> "RRQ", block_id |-> 0, path |-> p, mode |-> m, to |-> to]
ACK(id, to) == [op |-> "ACK", block_id |-> id, path |-> "-", mode |-> "-", to |-> to]

----------------------------------------------------------------------------
(* The session as a record, so that the handler is a function of it *)

Session ==
    [state |-> state, current_id |-> current_id, data_packet |-> data_packet,
     interest |-> interest, remote_addr |-> remote_addr, buffer_data |-> buffer_data,
     error |-> error, sent |-> sent, sink |-> sink, first_reply |-> first_reply,
     last_from |-> last_from]

\* try! / mtry! on an Err: the handler ends with the error
Fail(s, e) == [s EXCEPT !.state = "Error", !.error = e, !.data_packet = NoPacket]

\* unwrap() on None, unimplemented!(), arithmetic overflow: the thread panics
Panic(s) == [s EXCEPT !.state = "Panic", !.data_packet = NoPacket]

\* the transfer mode the read request carries
RequestMode(v, m) == IF v = "rotor" THEN "octet" ELSE m

\* InternalClient::send_read_request: Ok(None) of send_to is mapped to Ok(())
send_read_request(s, p, m, res) ==
    IF res = "err" THEN Fail(s, "io")
    ELSE IF res = "sent" THEN [s EXCEPT !.sent = Append(@, RRQ(p, m, s.remote_addr))]
    ELSE s

\* a bug: the ack is sent again although the socket took it
send_ack_twice(s, block_id, res) ==
    IF res = "sent"
    THEN [s EXCEPT !.sent = Append(Append(@, ACK(block_id, s.remote_addr)),
                                   ACK(block_id, s.remote_addr))]
    ELSE s

\* InternalClient::send_ack: the ack goes to remote_addr
send_ack(s, block_id, res) ==
    IF res = "sent" THEN [s EXCEPT !.sent = Append(@, ACK(block_id, s.remote_addr))]
    ELSE s

\* a bug: any block at or above the expected id is taken
IsExpectedOrLater(id, block_id) == block_id >= id

\* a bug: a retransmission of the block before the expected one is taken again
IsExpectedOrPrevious(id, block_id) == block_id = id \/ (block_id + 1) % U16 = id

\* does the state machine accept this block in ReceivingData(id)?
IsExpected(id, block_id) == id = block_id

\* a bug: a full block ends the transfer too
IsLastBlockInclusive(len) == len <= MAX_DATA_SIZE

\* is this the last block of the transfer?
IsLastBlock(len) == len < MAX_DATA_SIZE

\* data_packet.block_id() + 1 on u16. The build decides what an overflow does:
\* with overflow checks (debug profile) it panics, shown as -1; without, it wraps.
\* A session overflows at most once within the bounds, so the profile is drawn
\* where it is read.
NextId(block_id, checks) ==
    IF block_id + 1 >= U16 THEN (IF checks THEN -1 ELSE (block_id + 1) % U16)
    ELSE block_id + 1

\* a bug: the payload is written although the ack was not sent
AckWouldBlockWriting(s, pkt, rereg) ==
    IF rereg = "err" THEN Fail(s, "io")
    ELSE [s EXCEPT !.interest = "writable", !.state = "SendAck", !.data_packet = pkt,
                   !.sink = Append(@, pkt)]

\* the arm of SendAck after send_ack returned Ok(None)
AckWouldBlock(s, pkt, rereg) ==
    IF rereg = "err" THEN Fail(s, "io")
    ELSE [s EXCEPT !.interest = "writable", !.state = "SendAck", !.data_packet = pkt]

\* a bug: the result of write_all is dropped and the transfer goes on
WriteFailureIgnored(s) ==
    [s EXCEPT !.state = "ReceivingData", !.current_id = (@ + 1) % U16,
              !.data_packet = NoPacket]

\* try!(self.writer.write_all(data_packet.data())) on an Err
WriteFailed(s) == Fail(s, "io")

\* a bug: the interest stays writable after the retried ack went out
InterestKept(event, old) == old

\* if event.kind().is_writable() { reregister(.., Ready::readable(), ..) }
InterestAfterAck(event, old) == IF event = "writable" THEN "readable" ELSE old

\* the arm of SendAck after the ack was sent, client.rs
AckSentMio(s, pkt, event, write, rereg, checks) ==
    IF write = "err" THEN WriteFailed(s)
    ELSE LET w == [s EXCEPT !.sink = Append(@, pkt)]
             next_id == NextId(pkt.block_id, checks)
         IN  IF next_id = -1 THEN Panic(w)
             ELSE LET b == [w EXCEPT !.buffer_data = TRUE, !.data_packet = NoPacket]
                  IN  IF IsLastBlock(pkt.len) THEN [b EXCEPT !.state = "Done"]
                      ELSE IF event = "writable" /\ rereg = "err" THEN Fail(b, "io")
                      ELSE [b EXCEPT !.interest = InterestAfterAck(event, @),
                                     !.state = "ReceivingData", !.current_id = next_id]

\* the arm of SendAck after the ack was sent, client_new.rs
AckSentRotor(s, pkt, event, write, rereg, checks) ==
    IF write = "err" THEN WriteFailed(s)
    ELSE LET w == [s EXCEPT !.sink = Append(@, pkt), !.data_packet = NoPacket]
             next_id == NextId(pkt.block_id, checks)
         IN  IF IsLastBlock(pkt.len) THEN [w EXCEPT !.state = "Done"]
             ELSE IF event = "writable" /\ rereg = "err" THEN Fail(w, "io")
             ELSE IF next_id = -1 THEN Panic(w)
             ELSE [w EXCEPT !.interest = InterestAfterAck(event, @),
                            !.state = "ReceivingData", !.current_id = next_id]

\* ClientStates::SendAck(data_packet) / Client::SendAck(state, data_packet)
SendAckArm(v, s, pkt, event, ack, write, rereg, checks) ==
    IF ack = "err" THEN Fail(s, "io")
    ELSE IF ack = "wouldblock" THEN AckWouldBlock(s, pkt, rereg)
    ELSE IF v = "mio" THEN AckSentMio(send_ack(s, pkt.block_id, ack), pkt, event, write, rereg, checks)
    ELSE AckSentRotor(send_ack(s, pkt.block_id, ack), pkt, event, write, rereg, checks)

\* a bug: only the first reply sets the address
LearnAddrOnce(old, from) == IF old = WellKnownAddr THEN from ELSE old

\* the address sends go to after a datagram from `from` was received
LearnAddr(old, from) == from

\* InternalClient::receive_data on Ok(Some((n, from))): the session after it and
\* the decoded packet; a packet that is no decodable DATA packet panics
Received(s, d) ==
    [s EXCEPT !.remote_addr = LearnAddr(@, d.from),
              !.first_reply = IF @ = "-" THEN d.from ELSE @,
              !.last_from = d.from]

IsData(d) == d.opcode = "DATA" /\ d.decodes

\* a bug: a receive that would block is taken for a failure
ReceivedNothingFails(s) == Fail(s, "io")

\* receive_data returned Ok(None): None => return Ok(ReceivingData(current_id))
ReceivedNothing(s) == s

\* ClientStates::ReceivingData(current_id) / Client::ReceivingData(state, current_id)
\* rx is the result of recv_from: "err", "none" (Ok(None)) or "dgram" with d
ReceivingDataArm(v, s, event, rx, d, ack, write, rereg, checks) ==
    LET t == IF v = "mio" THEN [s EXCEPT !.buffer_data = FALSE] ELSE s
    IN  IF rx = "err" THEN Fail(t, "io")
        ELSE IF rx = "none" THEN ReceivedNothing(t)
        ELSE IF ~IsData(d) THEN Panic(Received(t, d))
        ELSE IF IsExpected(s.current_id, d.block_id)
             THEN SendAckArm(v, Received(t, d), [block_id |-> d.block_id, len |-> d.len],
                             event, ack, write, rereg, checks)
             ELSE Received(t, d)

\* ClientStates::SendReadRequest(path, mode) / Client::Idle(state)
SendReadRequestArm(v, s, p, m, send, rereg) ==
    LET t == send_read_request(s, p, RequestMode(v, m), send)
    IN  IF t.state = "Error" THEN t
        ELSE IF rereg = "err" THEN Fail(t, "io")
        ELSE [t EXCEPT !.interest = "readable", !.state = "ReceivingData", !.current_id = 1]

----------------------------------------------------------------------------
(* The runner *)

\* a bug: the runner keeps polling after the state machine finished
RunningForever(st) == TRUE

\* the states in which the runner dispatches the next event
Running(st) == st \in {"SendReadRequest", "ReceivingData", "SendAck"}

\* what the caller of the runner gets: Client::get returns Ok(()) or the Err;
\* the rotor loop is shut down by finish() in both cases and run() returns Ok(()),
\* Context.error is dropped with the context
RunnerResult(v, st) ==
    CASE st = "Done"  -> "Ok"
      [] st = "Error" -> IF v = "mio" THEN "Err" ELSE "Ok"
      [] st = "Panic" -> "Panic"
      [] OTHER        -> "running"

\* history of one dispatched event: the arm taken, the event, what recv_from and
\* send_to returned, the packet SendAck worked on, what write_all returned (the
\* results that were read only), and the state the event was dispatched in
Snapshot(arm, event, rx, d, pkt, send, write) ==
    [arm |-> arm, event |-> event, rx |-> rx, dgram |-> d, pkt |-> pkt, send |-> send,
     write |-> write,
     pre |-> [state |-> state, current_id |-> current_id, interest |-> interest,
              remote_addr |-> remote_addr, nsent |-> Len(sent), nsink |-> Len(sink)]]

Apply(s, l) ==
    /\ state' = s.state
    /\ current_id' = s.current_id
    /\ data_packet' = s.data_packet
    /\ interest' = s.interest
    /\ remote_addr' = s.remote_addr
    /\ buffer_data' = s.buffer_data
    /\ error' = s.error
    /\ sent' = s.sent
    /\ sink' = s.sink
    /\ first_reply' = s.first_reply
    /\ last_from' = s.last_from
    /\ run_result' = RunnerResult(variant, s.state)
    /\ last' = l
    /\ UNCHANGED << variant, path, mode, bulk >>

\* write_all is called only after the ack was sent
WriteResults(ack) == IF ack = "sent" THEN IoResults ELSE {"-"}

\* the build profile is read only where block_id + 1 overflows
Profiles(block_id) == IF block_id + 1 >= U16 THEN BOOLEAN ELSE {FALSE}

NumAcks == Len(SelectSeq(sent, LAMBDA p : p.op = "ACK"))

Init ==
    /\ variant \in Variants
    /\ \E r \in Requests : path = r[1] /\ mode = r[2]
    /\ state = "Created"
    /\ current_id = 0
    /\ data_packet = NoPacket
    /\ interest = "-"
    /\ remote_addr = WellKnownAddr
    /\ buffer_data = TRUE
    /\ error = "-"
    /\ run_result = "running"
    /\ sent = << >>
    /\ sink = << >>
    /\ first_reply = "-"
    /\ last_from = "-"
    /\ bulk = 0
    /\ last = NoLast

\* Client::get: poll.register(.., Ready::writable(), ..) under try!;
\* Client::new: scope.register(.., EventSet::writable(), ..).unwrap()
Register ==
    /\ state = "Created"
    /\ \E res \in IoResults :
         LET s == IF res = "ok"
                  THEN [Session EXCEPT !.state = "SendReadRequest", !.interest = "writable"]
                  ELSE IF variant = "mio" THEN Fail(Session, "io") ELSE Panic(Session)
         IN  Apply(s, Snapshot("Register", "-", "-", NoDatagram, NoPacket, "-", "-"))

\* poll.poll(&mut events, None) fails: try! returns the error from Client::get;
\* the rotor loop returns it from run(), which get unwraps
PollError ==
    /\ Running(state)
    /\ Apply(IF variant = "mio" THEN Fail(Session, "io") ELSE Panic(Session),
             Snapshot("PollError", "-", "-", NoDatagram, NoPacket, "-", "-"))

\* an event for the registered interest, in SendReadRequest / Idle
HandleSendReadRequest ==
    /\ Running(state)
    /\ state = "SendReadRequest"
    /\ \E send \in SendResults, rereg \in IoResults :
         Apply(SendReadRequestArm(variant, Session, path, mode, send, rereg),
               Snapshot("SendReadRequest", interest, "-", NoDatagram, NoPacket, send, "-"))

\* an event for the registered interest, in ReceivingData
HandleReceivingData ==
    /\ Running(state)
    /\ state = "ReceivingData"
    /\ NumAcks < MaxBlocks
    /\ \/ \E rx \in {"err", "none"} :
            Apply(ReceivingDataArm(variant, Session, interest, rx, NoDatagram,
                                   "-", "-", "-", FALSE),
                  Snapshot("ReceivingData", interest, rx, NoDatagram, NoPacket, "-", "-"))
       \/ \E d \in Datagrams(current_id) :
            \/ /\ ~(IsData(d) /\ IsExpected(current_id, d.block_id))
               /\ Apply(ReceivingDataArm(variant, Session, interest, "dgram", d,
                                         "-", "-", "-", FALSE),
                        Snapshot("ReceivingData", interest, "dgram", d, NoPacket, "-", "-"))
            \/ /\ IsData(d) /\ IsExpected(current_id, d.block_id)
               /\ \E ack \in SendResults :
                  \E write \in WriteResults(ack), rereg \in IoResults,
                     overflow_checks \in Profiles(d.block_id) :
                    Apply(ReceivingDataArm(variant, Session, interest, "dgram", d,
                                           ack, write, rereg, overflow_checks),
                          Snapshot("ReceivingData", interest, "dgram", d,
                                   [block_id |-> d.block_id, len |-> d.len], ack, write))

\* an event for the registered interest, in SendAck
HandleSendAck ==
    /\ Running(state)
    /\ state = "SendAck"
    /\ \E ack \in SendResults :
       \E write \in WriteResults(ack), rereg \in IoResults,
          overflow_checks \in Profiles(data_packet.block_id) :
         Apply(SendAckArm(variant, Session, data_packet, interest, ack, write, rereg,
                          overflow_checks),
               Snapshot("SendAck", interest, "-", NoDatagram, data_packet, ack, write))

\* BulkBlocks readable events in a row, each receiving the expected full block
\* from the same address, acking it at once and writing it: the summary of that
\* many HandleReceivingData steps. The blocks are counted in bulk, not logged.
BulkTransfer ==
    /\ Running(state)
    /\ state = "ReceivingData" /\ current_id = 1 /\ bulk = 0
    /\ sink = << >> /\ first_reply = "-"
    /\ \E a \in Addrs :
         /\ current_id' = 1 + BulkBlocks
         /\ bulk' = BulkBlocks
         /\ remote_addr' = a
         /\ first_reply' = a
         /\ last_from' = a
         /\ buffer_data' = TRUE
         /\ last' = Snapshot("Bulk", interest, "-", NoDatagram, NoPacket, "-", "-")
    /\ UNCHANGED << variant, path, mode, state, data_packet, interest,
                    error, run_result, sent, sink >>

Next ==
    \/ Register
    \/ PollError
    \/ HandleSendReadRequest
    \/ HandleReceivingData
    \/ HandleSendAck
    \/ BulkTransfer

Spec == Init /\ [][Next]_vars

----------------------------------------------------------------------------
(* What the last dispatched event did *)

AckAttempted == last.arm \in {"ReceivingData", "SendAck"} /\ last.send # "-"
AckSentNow == AckAttempted /\ last.send = "sent"
AckBlockedNow == AckAttempted /\ last.send = "wouldblock"
Acks == SelectSeq(sent, LAMBDA p : p.op = "ACK")
Terminal == {"Done", "Error", "Panic"}

----------------------------------------------------------------------------
\* C1 as stated: the session is in Done exactly when the event just handled sent
\* an ack for an expected Data packet shorter than 512 bytes, and an acked
\* expected packet of exactly 512 bytes leads to ReceivingData(block_id + 1).
C1_DoneExactlyOnShortAck ==
    /\ (state = "Done") <=> (AckSentNow /\ last.pkt.len < MAX_DATA_SIZE)
    /\ (AckSentNow /\ last.pkt.len = MAX_DATA_SIZE) =>
          (state = "ReceivingData" /\ current_id = (last.pkt.block_id + 1) % U16)

\* C1 amended: Done is reached only by the event that sent the ack for an expected
\* Data packet shorter than 512 bytes and then wrote its payload; after such an
\* ack the session is in Done, or in Error exactly when the sink write failed, or
\* panicked on the id increment at block 65535. An acked expected packet of
\* exactly 512 bytes never leads to Done: the session is in
\* ReceivingData(block_id + 1) or has failed.
C1_DoneOnlyAfterShortAckAndWrite ==
    /\ state = "Done" =>
          /\ AckSentNow /\ last.write = "ok"
          /\ last.pkt.len < MAX_DATA_SIZE
          /\ last.pkt.block_id = last.pre.current_id
          /\ sink # << >> /\ sink[Len(sink)] = last.pkt
    /\ (AckSentNow /\ last.pkt.len < MAX_DATA_SIZE) =>
          /\ state \in Terminal
          /\ (state = "Error") <=> (last.write = "err")
          /\ state = "Panic" => last.pkt.block_id = U16 - 1
    /\ (AckSentNow /\ last.pkt.len = MAX_DATA_SIZE) =>
          /\ state \in {"ReceivingData", "Error", "Panic"}
          /\ state = "ReceivingData" =>
                /\ current_id = (last.pkt.block_id + 1) % U16
                /\ last.write = "ok"
          /\ state = "Panic" => last.pkt.block_id = U16 - 1

\* a full first block was acked and written, then a short second block ended the session
C1_Witness ==
    /\ state = "Done" /\ bulk = 0
    /\ Len(sink) = 2 /\ sink[1].len = MAX_DATA_SIZE /\ sink[2].len = 499

----------------------------------------------------------------------------
\* the event just handled received a decodable Data packet with another block id
\* than the expected one
MismatchedNow ==
    /\ last.arm = "ReceivingData" /\ last.rx = "dgram"
    /\ last.dgram.opcode = "DATA" /\ last.dgram.decodes
    /\ last.dgram.block_id # last.pre.current_id

\* C2: a Data packet whose block id is not the expected one leaves the session in
\* ReceivingData with the same expected id: no ack is attempted or sent, nothing
\* is written to the sink, the registered interest is the one it was.
C2_MismatchedBlockDiscarded ==
    MismatchedNow =>
        /\ state = "ReceivingData"
        /\ current_id = last.pre.current_id
        /\ last.send = "-"
        /\ Len(sent) = last.pre.nsent
        /\ Len(sink) = last.pre.nsink
        /\ interest = last.pre.interest

\* block 5 arrived while block 3 was expected
C2_Witness ==
    /\ MismatchedNow /\ bulk = 0
    /\ state = "ReceivingData" /\ current_id = 3 /\ last.dgram.block_id = 5

----------------------------------------------------------------------------
\* every payload in the sink is the payload of a block whose ack was sent before
WrittenAfterAck ==
    /\ Len(sink) <= Len(Acks)
    /\ \A i \in 1..Len(sink) : sink[i].block_id = Acks[i].block_id
    /\ Len(sink) > last.pre.nsink => (AckSentNow /\ sink[Len(sink)] = last.pkt)

\* C3 as stated: after a would-block of send_ack the interest is writable, the
\* session is in SendAck with the same packet, the expected id and the sink are
\* what they were; a payload is written only after its ack was sent.
C3_WouldBlockStaysInSendAck ==
    /\ AckBlockedNow =>
          /\ interest = "writable"
          /\ state = "SendAck" /\ data_packet = last.pkt
          /\ current_id = last.pre.current_id
          /\ Len(sink) = last.pre.nsink
    /\ WrittenAfterAck

\* C3 amended: after a would-block of send_ack the session is in SendAck with the
\* same packet and writable interest, or in Error when the re-registration
\* failed; in both cases no ack was logged, the expected id did not advance and
\* nothing was written. While in SendAck the pending block is in neither the
\* acks nor the sink; a payload is written only after its ack was sent.
C3_WouldBlockKeepsPacketUnwritten ==
    /\ AckBlockedNow =>
          /\ state \in {"SendAck", "Error"}
          /\ state = "SendAck" => (interest = "writable" /\ data_packet = last.pkt)
          /\ state = "Error" => error = "io"
          /\ current_id = last.pre.current_id
          /\ Len(sink) = last.pre.nsink
          /\ Len(sent) = last.pre.nsent
    /\ state = "SendAck" =>
          /\ AckBlockedNow
          /\ data_packet.block_id = current_id
          /\ Len(sink) = Len(Acks)
    /\ WrittenAfterAck

\* the ack of block 2 would block a second time in a row, block 1 being written
C3_Witness ==
    /\ state = "SendAck" /\ AckBlockedNow /\ last.arm = "SendAck"
    /\ data_packet.block_id = 2 /\ Len(sink) = 1

----------------------------------------------------------------------------
\* C4: an Error packet received in ReceivingData ends the session in Error with
\* the server's error; no ack is sent and nothing is written.
C4_ErrorPacketEndsInError ==
    (last.arm = "ReceivingData" /\ last.rx = "dgram" /\ last.dgram.opcode = "ERROR") =>
        /\ state = "Error" /\ error = "server"
        /\ Len(sent) = last.pre.nsent
        /\ Len(sink) = last.pre.nsink

----------------------------------------------------------------------------
\* C5 as stated: the acks carry increasing block ids starting at 1, each id once;
\* the sink holds the payloads of blocks 1..k in order, each once; in Done every
\* acked block up to the final short one is in the sink.
C5_AcksIncreasingSinkInOrder ==
    /\ \A i \in 1..Len(Acks) : Acks[i].block_id > bulk
    /\ (bulk = 0 /\ Acks # << >>) => Acks[1].block_id = 1
    /\ \A i, j \in 1..Len(Acks) : i < j => Acks[i].block_id < Acks[j].block_id
    /\ \A i \in 1..Len(sink) : sink[i].block_id = bulk + i
    /\ state = "Done" => Len(sink) = Len(Acks)

\* C5 amended: the k-th block is acknowledged once, with id k modulo 2^16 (ids
\* increase from 1 up to 65535, then go on from 0); the sink holds the payloads
\* of the acknowledged blocks in that order, each once, all full but possibly the
\* last; in Done every acked block is in the sink and the last one is short.
C5_AcksConsecutiveSinkInOrder ==
    /\ \A i \in 1..Len(Acks) : Acks[i].block_id = (bulk + i) % U16
    /\ Len(sink) <= Len(Acks) /\ Len(Acks) <= Len(sink) + 1
    /\ \A i \in 1..Len(sink) : sink[i].block_id = (bulk + i) % U16
    /\ \A i \in 1..(Len(sink) - 1) : sink[i].len = MAX_DATA_SIZE
    /\ Len(Acks) = Len(sink) + 1 => state \in {"Error", "Panic"}
    /\ state \in {"ReceivingData", "SendAck"} =>
          /\ current_id = (bulk + Len(Acks) + 1) % U16
          /\ \A i \in 1..Len(sink) : sink[i].len = MAX_DATA_SIZE
    /\ state = "Done" =>
          /\ Len(sink) = Len(Acks) /\ sink # << >>
          /\ sink[Len(sink)].len < MAX_DATA_SIZE

\* blocks 1 and 2 are written and a retransmission of block 2 was just discarded
C5_Witness ==
    /\ MismatchedNow /\ bulk = 0
    /\ state = "ReceivingData" /\ current_id = 3 /\ last.dgram.block_id = 2
    /\ Len(Acks) = 2 /\ Len(sink) = 2

----------------------------------------------------------------------------
\* C6: Done is terminal. No event is dispatched in Done, Error or after a panic
\* (so nothing is sent, received or expected after it); in Done the runner has
\* returned success and no error is recorded, in Error an error is recorded.
C6_DoneIsTerminal ==
    /\ last.pre.state \notin Terminal
    /\ state = "Done" => (run_result = "Ok" /\ error = "-" /\ data_packet = NoPacket)
    /\ state = "Error" => error # "-"
    /\ state \notin Terminal => (run_result = "running" /\ error = "-")

\* readme.txt in octet mode, one block of 499 bytes: request and one ack sent
C6_Witness ==
    /\ state = "Done" /\ path = "readme.txt" /\ bulk = 0
    /\ Len(sent) = 2 /\ sent[2] = ACK(1, remote_addr)
    /\ sink = << [block_id |-> 1, len |-> 499] >>

----------------------------------------------------------------------------
\* C7: the read request goes to the well-known address, and every packet sent
\* after the first reply goes to the address the first reply came from.
C7_SendsGoToFirstReplyAddress ==
    \A i \in 1..Len(sent) :
        /\ sent[i].op = "RRQ" => sent[i].to = WellKnownAddr
        /\ sent[i].op = "ACK" => sent[i].to = first_reply

----------------------------------------------------------------------------
\* C8: a failure of a socket call ends the session in Error, and for a session
\* that ended in Error with an I/O error the caller of the runner gets a failure.
C8_IoFailureReachesCaller ==
    /\ (last.send = "err" \/ last.rx = "err") => state = "Error"
    /\ (state = "Error" /\ error = "io") => run_result = "Err"

----------------------------------------------------------------------------
\* C9: after the full block with id 65535 is acked and written, the session goes
\* on in ReceivingData(0), unless the re-registration failed.
C9_BlockIdWraps ==
    (/\ AckSentNow /\ last.write = "ok"
     /\ last.pkt.block_id = U16 - 1 /\ last.pkt.len = MAX_DATA_SIZE
     /\ state # "Error") =>
        (state = "ReceivingData" /\ current_id = 0)

----------------------------------------------------------------------------
\* C10: a received datagram that is no well-formed Data or Error packet ends the
\* session in Error with a protocol error; no received datagram makes the
\* client panic.
C10_BadDatagramEndsInError ==
    /\ (last.rx = "dgram" /\ last.dgram.opcode # "ERROR" /\ ~IsData(last.dgram)) =>
          (state = "Error" /\ error = "protocol")
    /\ last.rx = "dgram" => state # "Panic"


----------------------------------------------------------------------------
Requests_Sent == SelectSeq(sent, LAMBDA p : p.op = "RRQ")

\* the read request is sent at most once, an event sends at most one datagram,
\* an ack is logged only by the event that holds the block it acknowledges, and
\* no two acks of the session carry the same block
NeverRetransmits ==
    /\ Len(Requests_Sent) <= 1
    /\ Len(sent) <= last.pre.nsent + 1
    /\ (Len(sent) > last.pre.nsent /\ sent[Len(sent)].op = "ACK") =>
          (AckSentNow /\ sent[Len(sent)].block_id = last.pkt.block_id)
    /\ \A i, j \in 1..Len(Acks) : i < j => Acks[i].block_id # Acks[j].block_id

\* the event just handled was dispatched in ReceivingData and no datagram has
\* arrived since the read request
NothingArrivedYet ==
    /\ last.pre.state = "ReceivingData" /\ last.arm # "Bulk"
    /\ first_reply = "-"

\* C11 as stated: the client never retransmits, and while no datagram has arrived
\* after the read request the session is in ReceivingData(1), not in Done or Error.
C11_HangsInReceivingData ==
    /\ NeverRetransmits
    /\ NothingArrivedYet => (state = "ReceivingData" /\ current_id = 1)

\* C11 amended: the client never retransmits, and while no datagram has arrived
\* after the read request the session is in ReceivingData(1) with nothing more
\* sent, or it has failed because recv_from or the poll failed; it is not in Done.
C11_HangsUnlessIoFails ==
    /\ NeverRetransmits
    /\ NothingArrivedYet =>
          /\ Len(sent) = last.pre.nsent /\ Acks = << >> /\ sink = << >>
          /\ \/ state = "ReceivingData" /\ current_id = 1 /\ interest = "readable"
             \/ state \in {"Error", "Panic"} /\ (last.rx = "err" \/ last.arm = "PollError")

\* the request was sent once and a readable event found no datagram
C11_Witness ==
    /\ NothingArrivedYet /\ last.rx = "none"
    /\ state = "ReceivingData" /\ current_id = 1
    /\ Len(sent) = 1 /\ sent[1].op = "RRQ"


----------------------------------------------------------------------------
\* C12: whenever the runner is about to poll, the registered interest is the one
\* the pending operation needs: writable while the read request is to be sent and
\* while an ack is pending in SendAck, readable in ReceivingData; and every event
\* was delivered for the interest registered at that time.
C12_InterestMatchesPendingOperation ==
    /\ state = "SendReadRequest" => interest = "writable"
    /\ state = "SendAck" => interest = "writable"
    /\ state = "ReceivingData" => interest = "readable"
    /\ last.arm \in {"SendReadRequest", "ReceivingData", "SendAck"} =>
          last.event = last.pre.interest

\* an ack that had blocked went out on a writable event and the session is back
\* in ReceivingData with readable interest
C12_Witness ==
    /\ last.arm = "SendAck" /\ last.event = "writable" /\ AckSentNow
    /\ state = "ReceivingData" /\ interest = "readable"


----------------------------------------------------------------------------
\* C13: a readable event in ReceivingData(e) whose receive finds no datagram
\* leaves the session in ReceivingData(e) without an error; the remote address,
\* the sink, the registered interest and the packets sent are what they were.
C13_SpuriousWakeupChangesNothing ==
    (last.arm = "ReceivingData" /\ last.rx = "none") =>
        /\ state = "ReceivingData" /\ error = "-" /\ run_result = "running"
        /\ current_id = last.pre.current_id
        /\ remote_addr = last.pre.remote_addr
        /\ interest = last.pre.interest
        /\ Len(sent) = last.pre.nsent
        /\ Len(sink) = last.pre.nsink

\* a spurious wakeup while block 2 is expected, block 1 being acked and written
C13_Witness ==
    /\ last.arm = "ReceivingData" /\ last.rx = "none"
    /\ state = "ReceivingData" /\ current_id = 2
    /\ Len(sink) = 1 /\ Len(Acks) = 1


----------------------------------------------------------------------------
\* C14: when the sink write of an acked block fails, the session is in Error with
\* the I/O error: the block is not in the sink, the expected id is the one it
\* was, the session is not in Done also when the block was short, and the ack of
\* that block is the last datagram sent.
C14_SinkFailureAborts ==
    last.write = "err" =>
        /\ AckSentNow
        /\ state = "Error" /\ error = "io"
        /\ current_id = last.pre.current_id /\ current_id = last.pkt.block_id
        /\ Len(sink) = last.pre.nsink
        /\ Len(sent) = last.pre.nsent + 1
        /\ sent[Len(sent)] = ACK(last.pkt.block_id, remote_addr)

\* the short final block 2 was acked, then its write failed
C14_Witness ==
    /\ last.write = "err" /\ last.pkt.len = 499 /\ last.pkt.block_id = 2
    /\ state = "Error" /\ Len(sink) = 1 /\ Len(Acks) = 2


----------------------------------------------------------------------------
\* C15: whenever the session of client.rs waits in ReceivingData (it holds no
\* decoded packet), the reusable receive buffer is back in buffer_data.
C15_ReceiveBufferHandedBack ==
    (variant = "mio" /\ state = "ReceivingData") => buffer_data


----------------------------------------------------------------------------
\* C16: the first datagram of a session is the read request, and a read request
\* carries the path and the transfer mode given to get.
C16_RequestCarriesPathAndMode ==
    /\ sent # << >> => sent[1].op = "RRQ"
    /\ \A i \in 1..Len(sent) :
          sent[i].op = "RRQ" => (sent[i].path = path /\ sent[i].mode = mode)


----------------------------------------------------------------------------
\* C17: once a datagram was received, remote_addr is the address the latest one
\* came from (before, it is the well-known address), and an ack sent by the
\* event just handled went there. SendAck receives nothing, so for a retried ack
\* this is the address its block arrived from.
C17_AcksGoToLatestSender ==
    /\ remote_addr = IF last_from = "-" THEN WellKnownAddr ELSE last_from
    /\ last.rx = "dgram" => last_from = last.dgram.from
    /\ last.arm = "SendAck" => (last.rx = "-" /\ remote_addr = last.pre.remote_addr)
    /\ AckSentNow => sent[Len(sent)] = ACK(last.pkt.block_id, last_from)

\* block 2 came from another address than the first reply; its ack blocked, was
\* retried and went to the address block 2 came from
C17_Witness ==
    /\ AckSentNow /\ last.arm = "SendAck" /\ last.pkt.block_id = 2
    /\ first_reply = "server:2001" /\ last_from = "other:3001"
    /\ sent[Len(sent)].to = "other:3001"


----------------------------------------------------------------------------
\* C18: whenever the session is in ReceivingData, the socket has taken a read
\* request; a read request whose send would block leaves the session waiting to
\* send it on a writable event.
C18_RequestSentBeforeReceiving ==
    /\ state = "ReceivingData" => Len(Requests_Sent) = 1
    /\ (last.arm = "SendReadRequest" /\ last.send = "wouldblock") =>
          (state = "SendReadRequest" /\ interest = "writable")


----------------------------------------------------------------------------
(* The session under the assumptions of the liveness claim: no socket, poll or
   sink call fails; the server sends the expected block, possibly after
   retransmissions of the block before it; each block may be the last one, and
   the last one the bounds allow is short; an ack may block any number of times
   but goes out in the end. *)

\* payload lengths the server may give the next expected block
LiveLens == IF NumAcks + 1 >= MaxBlocks THEN {n \in PayloadLens : n < MAX_DATA_SIZE}
            ELSE PayloadLens

\* results of send_to when nothing fails
LiveSendResults == {"sent", "wouldblock"}

LiveRegister ==
    /\ state = "Created"
    /\ Apply([Session EXCEPT !.state = "SendReadRequest", !.interest = "writable"],
             Snapshot("Register", "-", "-", NoDatagram, NoPacket, "-", "-"))

LiveSendReadRequest ==
    /\ Running(state) /\ state = "SendReadRequest"
    /\ \E send \in LiveSendResults :
         Apply(SendReadRequestArm(variant, Session, path, mode, send, "ok"),
               Snapshot("SendReadRequest", interest, "-", NoDatagram, NoPacket, send, "-"))

LiveSpuriousWakeup ==
    /\ Running(state) /\ state = "ReceivingData"
    /\ Apply(ReceivingDataArm(variant, Session, interest, "none", NoDatagram,
                              "-", "-", "-", FALSE),
             Snapshot("ReceivingData", interest, "none", NoDatagram, NoPacket, "-", "-"))

\* a retransmission of the block before the expected one
LiveDuplicate ==
    /\ Running(state) /\ state = "ReceivingData"
    /\ bulk + NumAcks >= 1
    /\ \E a \in Addrs :
         LET d == [opcode |-> "DATA", decodes |-> TRUE,
                   block_id |-> (current_id + U16 - 1) % U16,
                   len |-> MAX_DATA_SIZE, from |-> a]
         IN  Apply(ReceivingDataArm(variant, Session, interest, "dgram", d,
                                    "-", "-", "-", FALSE),
                   Snapshot("ReceivingData", interest, "dgram", d, NoPacket, "-", "-"))

\* the expected block arrives; its ack goes out at once or blocks
LiveDeliver ==
    /\ Running(state) /\ state = "ReceivingData"
    /\ NumAcks < MaxBlocks
    /\ \E n \in LiveLens, a \in Addrs, ack \in LiveSendResults,
          overflow_checks \in Profiles(current_id) :
         LET d == [opcode |-> "DATA", decodes |-> TRUE, block_id |-> current_id,
                   len |-> n, from |-> a]
             write == IF ack = "sent" THEN "ok" ELSE "-"
         IN  Apply(ReceivingDataArm(variant, Session, interest, "dgram", d,
                                    ack, write, "ok", overflow_checks),
                   Snapshot("ReceivingData", interest, "dgram", d,
                            [block_id |-> d.block_id, len |-> d.len], ack, write))

LiveAckBlocked ==
    /\ Running(state) /\ state = "SendAck"
    /\ Apply(SendAckArm(variant, Session, data_packet, interest, "wouldblock", "-", "ok",
                        FALSE),
             Snapshot("SendAck", interest, "-", NoDatagram, data_packet, "wouldblock", "-"))

LiveAckSucceeds ==
    /\ Running(state) /\ state = "SendAck"
    /\ \E overflow_checks \in Profiles(data_packet.block_id) :
         Apply(SendAckArm(variant, Session, data_packet, interest, "sent", "ok", "ok",
                          overflow_checks),
               Snapshot("SendAck", interest, "-", NoDatagram, data_packet, "sent", "ok"))

LiveNext ==
    \/ LiveRegister
    \/ LiveSendReadRequest
    \/ LiveSpuriousWakeup
    \/ LiveDuplicate
    \/ LiveDeliver
    \/ LiveAckBlocked
    \/ LiveAckSucceeds
    \/ BulkTransfer

\* the runner keeps dispatching events, the server keeps sending the expected
\* block until it is taken, and a pending ack goes out in the end
LiveSpec ==
    /\ Init /\ [][LiveNext]_vars
    /\ WF_vars(LiveRegister)
    /\ WF_vars(LiveSendReadRequest)
    /\ WF_vars(LiveDeliver)
    /\ WF_vars(LiveAckSucceeds)

\* C19: under these assumptions the session eventually is in Done and the runner
\* has returned success.
C19_EventuallyDone == <>(state = "Done" /\ run_result = "Ok")

\* what holds instead: the session ends in Done, or it panicked in the id
\* increment of block 65535
DoneUnlessOverflowPanic ==
    <>(\/ state = "Done" /\ run_result = "Ok"
       \/ state = "Panic" /\ last.pkt.block_id = U16 - 1)


----------------------------------------------------------------------------
\* what the peer, the sink, the poll and the caller of the runner see of a session
Observable(s) ==
    [state |-> s.state, current_id |-> s.current_id, data_packet |-> s.data_packet,
     interest |-> s.interest, remote_addr |-> s.remote_addr, error |-> s.error,
     sent |-> s.sent, sink |-> s.sink, result |-> RunnerResult("mio", s.state)]

\* the same, with the runner of the other variant
ObservableRotor(s) == [Observable(s) EXCEPT !.result = RunnerResult("rotor", s.state)]

\* C20: in every state a session reaches, the handlers of client.rs and of
\* client_new.rs answer every event, socket outcome and datagram alike: the same
\* datagrams sent, the same sink writes, the same interest, the same next state
\* and the same result for the caller.
C20_VariantsAgree ==
    /\ state = "SendReadRequest" =>
          \A send \in SendResults, rereg \in IoResults :
              Observable(SendReadRequestArm("mio", Session, path, mode, send, rereg))
              = ObservableRotor(SendReadRequestArm("rotor", Session, path, mode, send, rereg))
    /\ state = "ReceivingData" =>
          /\ \A rx \in {"err", "none"} :
                Observable(ReceivingDataArm("mio", Session, interest, rx, NoDatagram,
                                            "-", "-", "-", FALSE))
                = ObservableRotor(ReceivingDataArm("rotor", Session, interest, rx,
                                                   NoDatagram, "-", "-", "-", FALSE))
          /\ \A d \in Datagrams(current_id), ack \in SendResults :
             \A write \in WriteResults(ack), rereg \in IoResults,
                checks \in Profiles(d.block_id) :
                Observable(ReceivingDataArm("mio", Session, interest, "dgram", d,
                                            ack, write, rereg, checks))
                = ObservableRotor(ReceivingDataArm("rotor", Session, interest, "dgram", d,
                                                   ack, write, rereg, checks))
    /\ state = "SendAck" =>
          \A ack \in SendResults :
          \A write \in WriteResults(ack), rereg \in IoResults,
             checks \in Profiles(data_packet.block_id) :
              Observable(SendAckArm("mio", Session, data_packet, interest, ack, write,
                                    rereg, checks))
              = ObservableRotor(SendAckArm("rotor", Session, data_packet, interest, ack,
                                           write, rereg, checks))

====
